---- MODULE Spec2Model ----
(***************************************************************************)
(* A model of the Limiter of src/methods.go: its lifecycle (Start, Stop),  *)
(* the background checker goroutine, the registry operations (GetStatus,   *)
(* AddCustomIgnore, RemoveCustomIgnore) and the configuration setters.     *)
(*                                                                         *)
(* Durations and instants are counted in seconds.  time.Duration is an     *)
(* int64; the model keeps a two's-complement width of DurBits bits.        *)
(* A nil pointer is 0; a mutex is identified by the number of its          *)
(* allocation.  A panic (nil dereference, write to a nil map, unlock of an *)
(* unlocked mutex) ends the process: it is recorded in `panicked` and no   *)
(* action is enabled afterwards.                                           *)
(***************************************************************************)
EXTENDS Integers, Sequences, FiniteSets, TLC

\* ------------------------------------------------------------------ bounds
\* Width of a duration in bits (int64 in the program).
DurBits == 8
\* The clock of the model stops at MaxTime.
MaxTime == 3
\* Number of lifetimes: every Start that takes effect allocates a mutex and
\* spawns a checker goroutine, and the model allows MaxMutex of them.
MaxMutex == 2
\* Longest exception-ID list of the model.
MaxList == 2
\* Longest predicate or trigger list of the model.
MaxFuncs == 1

\* ------------------------------------------------------- program constants
\* time.Second and time.Minute, in seconds.
Second == 1
Minute == 60

Ids == {1, 2}
MutexIds == 1..MaxMutex
\* The checker goroutines, named by the mutex their Start allocated.
Reapers == MutexIds
\* Durations a caller passes to AddCustomIgnore.
CustomDurations == {0, 1}
\* The identity the registry operations of the lifecycle specification use.
ConcIds == {1}

DurMod == 2 ^ DurBits
DurMax == (DurMod \div 2) - 1
DurMin == -(DurMod \div 2)
\* int64 wrap-around of an arithmetic result.
Wrap(x) == ((x - DurMin) % DurMod) + DurMin

VARIABLES
    isEnabled,          \* l.isEnabled
    isStopped,          \* l.isStopped
    mutex,              \* l.mutex: 0 is nil, else the mutex's identity
    userMap,            \* l.userMap: [alloc, entries]; alloc = FALSE is nil
    ignoredExceptions,  \* l.ignoredExceptions
    exceptionIDs,       \* l.exceptionIDs
    timeout,            \* l.timeout (the window)
    punishment,         \* l.punishment
    maxCount,           \* l.maxCount
    maxTimeout,         \* l.maxTimeout (the checker's interval)
    TextOnly,           \* l.TextOnly
    conditions,         \* l.conditions
    exceptions,         \* l.exceptions
    triggers,           \* l.triggers
    locks,              \* state of every allocated sync.RWMutex: [w, r]
    nextMutex,          \* number of mutexes allocated so far
    now,                \* time.Now()
    ctl,                \* position of the goroutine calling Start and Stop
    reapers,            \* the checker goroutines: [pc, p]
    api,                \* the goroutine calling the registry operations
    lastCall,           \* outcome of the last Start or Stop call
    panicked            \* "" or the panic that ended the process

lifeVars == <<isEnabled, isStopped, mutex, userMap>>
configVars == <<timeout, punishment, maxCount, maxTimeout, TextOnly,
                exceptionIDs, conditions, exceptions, triggers>>
vars == <<isEnabled, isStopped, mutex, userMap, ignoredExceptions,
          exceptionIDs, timeout, punishment, maxCount, maxTimeout, TextOnly,
          conditions, exceptions, triggers, locks, nextMutex, now, ctl,
          reapers, api, lastCall, panicked>>

\* ------------------------------------------------------------- data types
\* A nil *customIgnore.
NoCustom == [set |-> FALSE, startTime |-> 0, duration |-> 0,
             ignoreException |-> FALSE]
\* No entry under a key (the map lookup yields nil).
NilStatus == [present |-> FALSE, Last |-> 0, count |-> 0, limited |-> FALSE,
              custom |-> NoCustom]
\* new(UserStatus): every field at its zero value.
NewStatus == [present |-> TRUE, Last |-> 0, count |-> 0, limited |-> FALSE,
              custom |-> NoCustom]
NilMap == [alloc |-> FALSE, entries |-> [i \in Ids |-> NilStatus]]
\* make(map[int64]*UserStatus)
MakeMap == [alloc |-> TRUE, entries |-> [i \in Ids |-> NilStatus]]
\* len(l.userMap); the length of a nil map is 0.
Len_userMap(m) == Cardinality({i \in Ids : m.entries[i].present})

FreeLock == [w |-> FALSE, r |-> 0]
DeadReaper == [pc |-> "dead", p |-> 0]
IdleApi == [pc |-> "idle", op |-> "none", id |-> 0, d |-> 0, ign |-> FALSE,
            p |-> 0, q |-> 0]

\* ------------------------------------------------------------ the RWMutex
LockFree(m) == ~locks[m].w /\ locks[m].r = 0
WLocked(m) == [locks EXCEPT ![m].w = TRUE]
WUnlocked(m) == [locks EXCEPT ![m].w = FALSE]
RLocked(m) == [locks EXCEPT ![m].r = @ + 1]
RUnlocked(m) == [locks EXCEPT ![m].r = @ - 1]

\* ---------------------------------------------------------------- helpers
\* l.punishment + l.timeout + time.Minute
DefaultInterval == Wrap(Wrap(punishment + timeout) + Minute)

\* time.Since(t) at the instant `now`.
Since(t) == now - t

\* IsCustomLimited with the override ending at the instant startTime +
\* duration (">=" in place of ">").
IsCustomLimitedEndsAtDuration(s) ==
    IF ~s.custom.set THEN FALSE
    ELSE IF Since(s.custom.startTime) >= s.custom.duration
            /\ s.custom.duration # 0
         THEN FALSE
         ELSE TRUE

\* IsCustomLimited without the test of a zero duration.
IsCustomLimitedNoZeroTest(s) ==
    IF ~s.custom.set THEN FALSE
    ELSE IF Since(s.custom.startTime) > s.custom.duration
         THEN FALSE
         ELSE TRUE

\* UserStatus.IsCustomLimited: the value it returns ...
IsCustomLimited(s) ==
    IF ~s.custom.set THEN FALSE
    ELSE IF Since(s.custom.startTime) > s.custom.duration
            /\ s.custom.duration # 0
         THEN FALSE
         ELSE TRUE

\* ... and the status it leaves (an expired override is cleared).
AfterIsCustomLimited(s) ==
    IF s.custom.set
       /\ Since(s.custom.startTime) > s.custom.duration
       /\ s.custom.duration # 0
    THEN [s EXCEPT !.custom = NoCustom]
    ELSE s

\* UserStatus.canBeDeleted
canBeDeleted(s) ==
    \/ s.Last = 0
    \/ (Since(s.Last) > timeout /\ ~s.limited /\ ~IsCustomLimited(s))

\* The checker's loop deleting the aged entries alone: an entry whose Last is
\* the zero time stays.
SweepAgedOnly(m) ==
    [m EXCEPT !.entries =
        [i \in Ids |->
            IF m.entries[i].present /\ m.entries[i].Last # 0
               /\ canBeDeleted(m.entries[i])
            THEN NilStatus
            ELSE m.entries[i]]]

\* The checker's loop over the map: every entry that can be deleted is.
\* canBeDeleted calls IsCustomLimited only when the first two conjuncts of its
\* second disjunct hold, and an entry whose override it clears is deleted.
Sweep(m) ==
    [m EXCEPT !.entries =
        [i \in Ids |->
            IF m.entries[i].present /\ canBeDeleted(m.entries[i])
            THEN NilStatus
            ELSE m.entries[i]]]

\* addIgnoredExceptions
addIgnoredExceptions(list, id) ==
    IF Len(list) = 0 THEN Append(list, id)
    ELSE IF \E k \in 1..Len(list) : list[k] = id THEN list
    ELSE Append(list, id)

\* removeFromIgnoredExceptions: the first occurrence is removed.
removeFromIgnoredExceptions(list, id) ==
    IF Len(list) = 0 THEN list
    ELSE IF \E k \in 1..Len(list) : list[k] = id
         THEN LET i == CHOOSE k \in 1..Len(list) :
                           list[k] = id /\ \A j \in 1..(k - 1) : list[j] # id
              IN  SubSeq(list, 1, i - 1) \o SubSeq(list, i + 1, Len(list))
         ELSE list

\* The customIgnore AddCustomIgnore installs.
NewCustom(d, ign) ==
    [set |-> TRUE, startTime |-> now, duration |-> d, ignoreException |-> ign]

\* ------------------------------------------------------------------- Init
Init ==
    /\ isEnabled = FALSE
    /\ isStopped = FALSE
    /\ mutex = 0
    /\ userMap = NilMap
    /\ ignoredExceptions = <<>>
    /\ exceptionIDs = <<>>
    /\ timeout = 1
    /\ punishment = 1
    /\ maxCount = 1
    /\ maxTimeout = 0
    /\ TextOnly = FALSE
    /\ conditions = <<>>
    /\ exceptions = <<>>
    /\ triggers = <<>>
    /\ locks = [m \in MutexIds |-> FreeLock]
    /\ nextMutex = 0
    /\ now = 1
    /\ ctl = "idle"
    /\ reapers = [r \in Reapers |-> DeadReaper]
    /\ api = IdleApi
    /\ lastCall = "none"
    /\ panicked = ""

\* ------------------------------------------------------------------ Start
StartNeverReturnsEarly == FALSE

\* Lines 25-27: nothing is done when the limiter is enabled.
StartReturnsEarly == isEnabled

Start ==
    /\ panicked = ""
    /\ ctl = "idle"
    /\ isEnabled \/ (IF mutex = 0 THEN nextMutex < MaxMutex
                     ELSE reapers[mutex].pc = "dead")
    /\ IF StartReturnsEarly
       THEN /\ lastCall' = "StartNoop"
            /\ UNCHANGED <<isEnabled, isStopped, mutex, userMap, nextMutex,
                           reapers>>
       ELSE /\ mutex' = IF mutex = 0 THEN nextMutex + 1 ELSE mutex
            /\ nextMutex' = IF mutex = 0 THEN nextMutex + 1 ELSE nextMutex
            /\ userMap' = IF ~userMap.alloc THEN MakeMap ELSE userMap
            /\ isEnabled' = TRUE
            /\ isStopped' = FALSE
            /\ reapers' = [reapers EXCEPT ![mutex'] = [pc |-> "loop", p |-> 0]]
            /\ lastCall' = "Start"
    /\ UNCHANGED <<ignoredExceptions, configVars, locks, now, ctl, api, panicked>>

\* ------------------------------------------------------------------- Stop
\* Stop without its two tests: the flags are set and the mutex is locked.
StopCallAlwaysLocks ==
    /\ panicked = ""
    /\ ctl = "idle"
    /\ isEnabled' = FALSE
    /\ isStopped' = TRUE
    /\ lastCall' = IF isStopped THEN "StopNoop" ELSE "Stop"
    /\ ctl' = "stop_lock"
    /\ UNCHANGED <<mutex, userMap, ignoredExceptions, configVars, locks,
                   nextMutex, now, reapers, api, panicked>>

\* Lines 50-58: the early return, the two flags and the nil test.
StopCall ==
    /\ panicked = ""
    /\ ctl = "idle"
    /\ IF isStopped
       THEN /\ lastCall' = "StopNoop"
            /\ UNCHANGED <<isEnabled, isStopped, ctl>>
       ELSE /\ isEnabled' = FALSE
            /\ isStopped' = TRUE
            /\ lastCall' = "Stop"
            /\ ctl' = IF mutex # 0 THEN "stop_lock" ELSE "idle"
    /\ UNCHANGED <<mutex, userMap, ignoredExceptions, configVars, locks,
                   nextMutex, now, reapers, api, panicked>>

\* Line 62: l.mutex.Lock()
StopLock ==
    /\ panicked = ""
    /\ ctl = "stop_lock"
    /\ IF mutex = 0
       THEN /\ panicked' = "Stop: nil mutex"
            /\ UNCHANGED <<locks, ctl>>
       ELSE /\ LockFree(mutex)
            /\ locks' = WLocked(mutex)
            /\ ctl' = "stop_clear"
            /\ UNCHANGED panicked
    /\ UNCHANGED <<lifeVars, ignoredExceptions, configVars, nextMutex, now,
                   reapers, api, lastCall>>

\* Stop without line 63.
StopClearKeepsMap ==
    /\ panicked = ""
    /\ ctl = "stop_clear"
    /\ ctl' = "stop_unlock"
    /\ UNCHANGED <<isEnabled, isStopped, mutex, userMap, ignoredExceptions,
                   configVars, locks, nextMutex, now, reapers, api, lastCall,
                   panicked>>

\* Line 63: l.userMap = nil
StopClear ==
    /\ panicked = ""
    /\ ctl = "stop_clear"
    /\ userMap' = NilMap
    /\ ctl' = "stop_unlock"
    /\ UNCHANGED <<isEnabled, isStopped, mutex, ignoredExceptions, configVars,
                   locks, nextMutex, now, reapers, api, lastCall, panicked>>

\* Line 64: l.mutex.Unlock()
StopUnlock ==
    /\ panicked = ""
    /\ ctl = "stop_unlock"
    /\ IF locks[mutex].w
       THEN /\ locks' = WUnlocked(mutex)
            /\ ctl' = "stop_release"
            /\ UNCHANGED panicked
       ELSE /\ panicked' = "unlock of unlocked mutex"
            /\ UNCHANGED <<locks, ctl>>
    /\ UNCHANGED <<lifeVars, ignoredExceptions, configVars, nextMutex, now,
                   reapers, api, lastCall>>

\* Stop that also puts the durations back to zero.
StopReleaseResetsConfig ==
    /\ panicked = ""
    /\ ctl = "stop_release"
    /\ mutex' = 0
    /\ ctl' = "idle"
    /\ timeout' = 0
    /\ punishment' = 0
    /\ maxTimeout' = 0
    /\ UNCHANGED <<isEnabled, isStopped, userMap, ignoredExceptions, maxCount,
                   TextOnly, exceptionIDs, conditions, exceptions, triggers,
                   locks, nextMutex, now, reapers, api, lastCall, panicked>>

\* Line 66: l.mutex = nil
StopRelease ==
    /\ panicked = ""
    /\ ctl = "stop_release"
    /\ mutex' = 0
    /\ ctl' = "idle"
    /\ UNCHANGED <<isEnabled, isStopped, userMap, ignoredExceptions, configVars,
                   locks, nextMutex, now, reapers, api, lastCall, panicked>>

StopSteps == StopCall \/ StopLock \/ StopClear \/ StopUnlock \/ StopRelease

\* ---------------------------------------------------------------- checker
SetReaper(r, pc, p) == [reapers EXCEPT ![r] = [@ EXCEPT !.pc = pc, !.p = p]]

\* Lines 476-482: the loop condition and the repair of a sub-second interval.
CheckerLoop(r) ==
    /\ panicked = ""
    /\ reapers[r].pc = "loop"
    /\ IF isEnabled /\ ~isStopped
       THEN /\ maxTimeout' = IF maxTimeout < Second THEN DefaultInterval
                             ELSE maxTimeout
            /\ reapers' = SetReaper(r, "sleep", 0)
       ELSE /\ reapers' = [reapers EXCEPT ![r] = DeadReaper]
            /\ UNCHANGED maxTimeout
    /\ UNCHANGED <<lifeVars, ignoredExceptions, exceptionIDs, timeout, punishment,
                   maxCount, TextOnly, conditions, exceptions, triggers, locks,
                   nextMutex, now, ctl, api, lastCall, panicked>>

\* Line 483: time.Sleep(l.maxTimeout) returns.
CheckerSleep(r) ==
    /\ panicked = ""
    /\ reapers[r].pc = "sleep"
    /\ reapers' = SetReaper(r, "nilcheck", 0)
    /\ UNCHANGED <<lifeVars, ignoredExceptions, configVars, locks, nextMutex,
                   now, ctl, api, lastCall, panicked>>

\* Lines 487-491: the goroutine dies when the map or the mutex is nil.
CheckerNilCheck(r) ==
    /\ panicked = ""
    /\ reapers[r].pc = "nilcheck"
    /\ reapers' = IF ~userMap.alloc \/ mutex = 0
                  THEN [reapers EXCEPT ![r] = DeadReaper]
                  ELSE SetReaper(r, "len", 0)
    /\ UNCHANGED <<lifeVars, ignoredExceptions, configVars, locks, nextMutex,
                   now, ctl, api, lastCall, panicked>>

\* Lines 493-495: nothing to sweep in an empty map.
CheckerLen(r) ==
    /\ panicked = ""
    /\ reapers[r].pc = "len"
    /\ reapers' = IF Len_userMap(userMap) = 0
                  THEN SetReaper(r, "loop", 0)
                  ELSE SetReaper(r, "lock", 0)
    /\ UNCHANGED <<lifeVars, ignoredExceptions, configVars, locks, nextMutex,
                   now, ctl, api, lastCall, panicked>>

\* Line 497: l.mutex is read, and Lock is called on what was read.
CheckerLock(r) ==
    /\ panicked = ""
    /\ reapers[r].pc = "lock"
    /\ IF mutex = 0
       THEN /\ panicked' = "checker: nil mutex"
            /\ UNCHANGED reapers
       ELSE /\ reapers' = SetReaper(r, "acquire", mutex)
            /\ UNCHANGED panicked
    /\ UNCHANGED <<lifeVars, ignoredExceptions, configVars, locks, nextMutex,
                   now, ctl, api, lastCall>>

\* Line 497: Lock returns once the mutex is free.
CheckerAcquire(r) ==
    /\ panicked = ""
    /\ reapers[r].pc = "acquire"
    /\ LockFree(reapers[r].p)
    /\ locks' = WLocked(reapers[r].p)
    /\ reapers' = SetReaper(r, "sweep", reapers[r].p)
    /\ UNCHANGED <<lifeVars, ignoredExceptions, configVars, nextMutex, now, ctl,
                   api, lastCall, panicked>>

\* Lines 498-502: the sweep (ranging over a nil map does nothing).
CheckerSweep(r) ==
    /\ panicked = ""
    /\ reapers[r].pc = "sweep"
    /\ userMap' = Sweep(userMap)
    /\ reapers' = SetReaper(r, "unlock", reapers[r].p)
    /\ UNCHANGED <<isEnabled, isStopped, mutex, ignoredExceptions, configVars,
                   locks, nextMutex, now, ctl, api, lastCall, panicked>>

\* Line 503: l.mutex is read again, and Unlock is called on what is read now.
CheckerUnlock(r) ==
    /\ panicked = ""
    /\ reapers[r].pc = "unlock"
    /\ IF mutex = 0
       THEN /\ panicked' = "checker: nil mutex"
            /\ UNCHANGED <<locks, reapers>>
       ELSE IF ~locks[mutex].w
       THEN /\ panicked' = "checker: unlock of unlocked mutex"
            /\ UNCHANGED <<locks, reapers>>
       ELSE /\ locks' = WUnlocked(mutex)
            /\ reapers' = SetReaper(r, "loop", 0)
            /\ UNCHANGED panicked
    /\ UNCHANGED <<lifeVars, ignoredExceptions, configVars, nextMutex, now, ctl,
                   api, lastCall>>

checkerSteps(r) ==
    \/ CheckerLoop(r) \/ CheckerSleep(r) \/ CheckerNilCheck(r) \/ CheckerLen(r)
    \/ CheckerLock(r) \/ CheckerAcquire(r) \/ CheckerSweep(r) \/ CheckerUnlock(r)

\* ------------------------------------------------------ registry operations
\* The first statement of GetStatus, AddCustomIgnore and RemoveCustomIgnore:
\* l.mutex is read and RLock / Lock is called on what was read.
ApiEnter(op, id, d, ign) ==
    /\ panicked = ""
    /\ api.pc = "idle"
    /\ IF mutex = 0
       THEN /\ panicked' = "registry operation: nil mutex"
            /\ UNCHANGED api
       ELSE /\ api' = [pc |-> "acquire", op |-> op, id |-> id, d |-> d,
                       ign |-> ign, p |-> mutex, q |-> 0]
            /\ UNCHANGED panicked
    /\ UNCHANGED <<lifeVars, ignoredExceptions, configVars, locks, nextMutex,
                   now, ctl, reapers, lastCall>>

GetStatusCall(id) == ApiEnter("GetStatus", id, 0, FALSE)
AddCustomIgnoreCall(id, d, ign) == ApiEnter("AddCustomIgnore", id, d, ign)
RemoveCustomIgnoreCall(id) == ApiEnter("RemoveCustomIgnore", id, 0, FALSE)

\* Lines 293-294 and 323-324: Lock returns; the deferred Unlock's receiver is
\* l.mutex as it is read now.
ApiLock ==
    /\ panicked = ""
    /\ api.pc = "acquire"
    /\ api.op \in {"AddCustomIgnore", "RemoveCustomIgnore"}
    /\ LockFree(api.p)
    /\ locks' = WLocked(api.p)
    /\ api' = [api EXCEPT !.pc = "body", !.q = mutex]
    /\ UNCHANGED <<lifeVars, ignoredExceptions, configVars, nextMutex, now, ctl,
                   reapers, lastCall, panicked>>

\* AddCustomIgnore storing a new status whether the identity has one or not.
AddCustomIgnoreMapAlwaysNew(m, id, d, ign) ==
    [m EXCEPT !.entries[id] = [NewStatus EXCEPT !.custom = NewCustom(d, ign)]]

\* The map AddCustomIgnore leaves (lines 296-319).
AddCustomIgnoreMap(m, id, d, ign) ==
    [m EXCEPT !.entries[id] =
        IF ~m.entries[id].present
        THEN [NewStatus EXCEPT !.custom = NewCustom(d, ign)]
        ELSE [m.entries[id] EXCEPT !.custom = NewCustom(d, ign)]]

\* Lines 296-319.  A nil map yields a nil status, and the store of the new
\* status into the nil map panics.
AddCustomIgnoreBody ==
    /\ panicked = ""
    /\ api.pc = "body"
    /\ api.op = "AddCustomIgnore"
    /\ IF ~userMap.alloc
       THEN /\ panicked' = "AddCustomIgnore: assignment to entry in nil map"
            /\ UNCHANGED <<userMap, ignoredExceptions, api>>
       ELSE /\ userMap' = AddCustomIgnoreMap(userMap, api.id, api.d, api.ign)
            /\ ignoredExceptions' =
                   IF api.ign THEN addIgnoredExceptions(ignoredExceptions, api.id)
                   ELSE ignoredExceptions
            /\ api' = [api EXCEPT !.pc = "unlock"]
            /\ UNCHANGED panicked
    /\ UNCHANGED <<isEnabled, isStopped, mutex, configVars, locks, nextMutex,
                   now, ctl, reapers, lastCall>>

\* Lines 326-334.  A nil map yields a nil status: the early return.
RemoveCustomIgnoreBody ==
    /\ panicked = ""
    /\ api.pc = "body"
    /\ api.op = "RemoveCustomIgnore"
    /\ LET status == userMap.entries[api.id] IN
       IF ~status.present \/ ~status.custom.set
       THEN UNCHANGED <<userMap, ignoredExceptions>>
       ELSE /\ ignoredExceptions' =
                   IF status.custom.ignoreException
                   THEN removeFromIgnoredExceptions(ignoredExceptions, api.id)
                   ELSE ignoredExceptions
            /\ userMap' = [userMap EXCEPT !.entries[api.id].custom = NoCustom]
    /\ api' = [api EXCEPT !.pc = "unlock"]
    /\ UNCHANGED <<isEnabled, isStopped, mutex, configVars, locks, nextMutex,
                   now, ctl, reapers, lastCall, panicked>>

\* The deferred l.mutex.Unlock() of AddCustomIgnore and RemoveCustomIgnore.
ApiUnlock ==
    /\ panicked = ""
    /\ api.pc = "unlock"
    /\ IF api.q = 0
       THEN /\ panicked' = "registry operation: nil mutex"
            /\ UNCHANGED <<locks, api>>
       ELSE IF ~locks[api.q].w
       THEN /\ panicked' = "registry operation: unlock of unlocked mutex"
            /\ UNCHANGED <<locks, api>>
       ELSE /\ locks' = WUnlocked(api.q)
            /\ api' = IdleApi
            /\ UNCHANGED panicked
    /\ UNCHANGED <<lifeVars, ignoredExceptions, configVars, nextMutex, now, ctl,
                   reapers, lastCall>>

\* Line 231: RLock returns once no writer holds the mutex.
GetStatusRLock ==
    /\ panicked = ""
    /\ api.pc = "acquire"
    /\ api.op = "GetStatus"
    /\ ~locks[api.p].w
    /\ locks' = RLocked(api.p)
    /\ api' = [api EXCEPT !.pc = "read"]
    /\ UNCHANGED <<lifeVars, ignoredExceptions, configVars, nextMutex, now, ctl,
                   reapers, lastCall, panicked>>

\* Line 232: status = l.userMap[id] (a nil map yields nil).
GetStatusRead ==
    /\ panicked = ""
    /\ api.pc = "read"
    /\ api' = [api EXCEPT !.pc = "runlock"]
    /\ UNCHANGED <<lifeVars, ignoredExceptions, configVars, locks, nextMutex,
                   now, ctl, reapers, lastCall, panicked>>

\* Line 233: l.mutex is read again and RUnlock is called on what is read now.
GetStatusRUnlock ==
    /\ panicked = ""
    /\ api.pc = "runlock"
    /\ IF mutex = 0
       THEN /\ panicked' = "registry operation: nil mutex"
            /\ UNCHANGED <<locks, api>>
       ELSE IF locks[mutex].r = 0
       THEN /\ panicked' = "registry operation: unlock of unlocked mutex"
            /\ UNCHANGED <<locks, api>>
       ELSE /\ locks' = RUnlocked(mutex)
            /\ api' = IdleApi
            /\ UNCHANGED panicked
    /\ UNCHANGED <<lifeVars, ignoredExceptions, configVars, nextMutex, now, ctl,
                   reapers, lastCall>>

\* ------------------------------------------------------------------- time
Tick ==
    /\ panicked = ""
    /\ now < MaxTime
    /\ now' = now + 1
    /\ UNCHANGED <<lifeVars, ignoredExceptions, configVars, locks, nextMutex,
                   ctl, reapers, api, lastCall, panicked>>

\* ------------------------------------------------------------------- Next
Next ==
    \/ Start
    \/ StopCall \/ StopLock \/ StopClear \/ StopUnlock \/ StopRelease
    \/ \E r \in Reapers : CheckerLoop(r)
    \/ \E r \in Reapers : CheckerSleep(r)
    \/ \E r \in Reapers : CheckerNilCheck(r)
    \/ \E r \in Reapers : CheckerLen(r)
    \/ \E r \in Reapers : CheckerLock(r)
    \/ \E r \in Reapers : CheckerAcquire(r)
    \/ \E r \in Reapers : CheckerSweep(r)
    \/ \E r \in Reapers : CheckerUnlock(r)
    \/ \E id \in ConcIds : GetStatusCall(id)
    \/ \E id \in ConcIds, ign \in BOOLEAN : AddCustomIgnoreCall(id, 0, ign)
    \/ \E id \in ConcIds : RemoveCustomIgnoreCall(id)
    \/ ApiLock \/ AddCustomIgnoreBody \/ RemoveCustomIgnoreBody \/ ApiUnlock
    \/ GetStatusRLock \/ GetStatusRead \/ GetStatusRUnlock

Spec == Init /\ [][Next]_vars

\* The positions of a checker between its nil test and its Unlock.
Sweeping == {"len", "lock", "acquire", "sweep", "unlock"}

\* ------------------------------------------------------------------ Admit
\* Whether id is in a list of identities (the linear scans of lines 202-214
\* and 410-428).
InList(list, id) == \E k \in 1..Len(list) : list[k] = id

\* The window/count state machine of an identity on an evaluated event at
\* the instant `now`, without strict mode: a limited identity stays limited
\* until the punishment has elapsed since it was limited, a new window starts
\* with count 1, and the count that exceeds maxCount limits the identity.
AdmitStatus(s) ==
    IF ~s.present
    THEN [NewStatus EXCEPT !.Last = now, !.count = 1]
    ELSE IF s.limited
    THEN IF Since(s.Last) > punishment
         THEN [s EXCEPT !.limited = FALSE, !.count = 1, !.Last = now]
         ELSE s
    ELSE IF s.Last = 0 \/ Since(s.Last) > timeout
    THEN [s EXCEPT !.count = 1, !.Last = now]
    ELSE IF s.count + 1 > maxCount
    THEN [s EXCEPT !.count = s.count + 1, !.limited = TRUE, !.Last = now]
    ELSE [s EXCEPT !.count = s.count + 1]

\* The admission decision for an event of identity id: a disabled limiter, an
\* excepted identity that is not in the ignored-exceptions list and an active
\* custom override pass the event through and leave the counters alone.  The
\* check of the override clears it when it has expired.
Admit(id) ==
    /\ panicked = ""
    /\ isEnabled /\ ~isStopped
    /\ mutex # 0 /\ userMap.alloc /\ LockFree(mutex)
    /\ ~(InList(exceptionIDs, id) /\ ~InList(ignoredExceptions, id))
    /\ LET s == userMap.entries[id] IN
       userMap' = [userMap EXCEPT !.entries[id] =
                      IF s.present /\ IsCustomLimited(s) THEN s
                      ELSE AdmitStatus(AfterIsCustomLimited(s))]
    /\ UNCHANGED <<isEnabled, isStopped, mutex, ignoredExceptions, configVars,
                   locks, nextMutex, now, ctl, reapers, api, lastCall, panicked>>

\* --------------------------------------------- the operations, each whole
\* The operations below are those above run from the first statement to the
\* last with no other goroutine in between.

\* Stop, lines 49-68.
Stop ==
    /\ panicked = ""
    /\ ctl = "idle"
    /\ IF isStopped
       THEN /\ lastCall' = "StopNoop"
            /\ UNCHANGED <<isEnabled, isStopped, mutex, userMap>>
       ELSE /\ isEnabled' = FALSE
            /\ isStopped' = TRUE
            /\ lastCall' = "Stop"
            /\ IF mutex # 0
               THEN LockFree(mutex) /\ userMap' = NilMap /\ mutex' = 0
               ELSE UNCHANGED <<mutex, userMap>>
    /\ UNCHANGED <<ignoredExceptions, configVars, locks, nextMutex, now, ctl,
                   reapers, api, panicked>>

\* checker, lines 483-503: the sleep ends, and the iteration runs to the next
\* evaluation of the loop condition.  The clock is advanced by Tick alone:
\* a sleep may end at any instant.
CheckerPass(r) ==
    /\ panicked = ""
    /\ reapers[r].pc = "sleep"
    /\ IF ~userMap.alloc \/ mutex = 0
       THEN /\ reapers' = [reapers EXCEPT ![r] = DeadReaper]
            /\ UNCHANGED userMap
       ELSE /\ reapers' = SetReaper(r, "loop", 0)
            /\ IF Len_userMap(userMap) = 0
               THEN UNCHANGED userMap
               ELSE LockFree(mutex) /\ userMap' = Sweep(userMap)
    /\ UNCHANGED <<isEnabled, isStopped, mutex, ignoredExceptions, configVars,
                   locks, nextMutex, now, ctl, api, lastCall, panicked>>

\* GetStatus, lines 229-236.
GetStatus(id) ==
    /\ panicked = ""
    /\ api.pc = "idle"
    /\ IF mutex = 0
       THEN panicked' = "registry operation: nil mutex"
       ELSE ~locks[mutex].w /\ UNCHANGED panicked
    /\ UNCHANGED <<lifeVars, ignoredExceptions, configVars, locks, nextMutex,
                   now, ctl, reapers, api, lastCall>>

\* AddCustomIgnore, lines 292-320.
AddCustomIgnore(id, d, ign) ==
    /\ panicked = ""
    /\ api.pc = "idle"
    /\ IF mutex = 0
       THEN /\ panicked' = "registry operation: nil mutex"
            /\ UNCHANGED <<userMap, ignoredExceptions>>
       ELSE /\ LockFree(mutex)
            /\ IF ~userMap.alloc
               THEN /\ panicked' = "AddCustomIgnore: assignment to entry in nil map"
                    /\ UNCHANGED <<userMap, ignoredExceptions>>
               ELSE /\ userMap' = AddCustomIgnoreMap(userMap, id, d, ign)
                    /\ ignoredExceptions' =
                           IF ign THEN addIgnoredExceptions(ignoredExceptions, id)
                           ELSE ignoredExceptions
                    /\ UNCHANGED panicked
    /\ UNCHANGED <<isEnabled, isStopped, mutex, configVars, locks, nextMutex,
                   now, ctl, reapers, api, lastCall>>

\* RemoveCustomIgnore, lines 322-335.
RemoveCustomIgnore(id) ==
    /\ panicked = ""
    /\ api.pc = "idle"
    /\ IF mutex = 0
       THEN /\ panicked' = "registry operation: nil mutex"
            /\ UNCHANGED <<userMap, ignoredExceptions>>
       ELSE /\ LockFree(mutex)
            /\ UNCHANGED panicked
            /\ LET status == userMap.entries[id] IN
               IF ~status.present \/ ~status.custom.set
               THEN UNCHANGED <<userMap, ignoredExceptions>>
               ELSE /\ ignoredExceptions' =
                           IF status.custom.ignoreException
                           THEN removeFromIgnoredExceptions(ignoredExceptions, id)
                           ELSE ignoredExceptions
                    /\ userMap' = [userMap EXCEPT !.entries[id].custom = NoCustom]
    /\ UNCHANGED <<isEnabled, isStopped, mutex, configVars, locks, nextMutex,
                   now, ctl, reapers, api, lastCall>>

\* UserStatus.IsCustomLimited, lines 515-526, called on the status of id by a
\* caller that holds it (the method takes no lock).
IsCustomLimitedCall(id) ==
    /\ panicked = ""
    /\ api.pc = "idle"
    /\ userMap.entries[id].present
    /\ userMap' = [userMap EXCEPT !.entries[id] =
                      AfterIsCustomLimited(userMap.entries[id])]
    /\ UNCHANGED <<isEnabled, isStopped, mutex, ignoredExceptions, configVars,
                   locks, nextMutex, now, ctl, reapers, api, lastCall, panicked>>

\* The calls and the checker's iterations one after the other, with the clock
\* running and events admitted in between.
RegNext ==
    \/ Start
    \/ Stop
    \/ \E r \in Reapers : CheckerLoop(r)
    \/ \E r \in Reapers : CheckerPass(r)
    \/ \E id \in Ids : GetStatus(id)
    \/ \E id \in Ids, d \in CustomDurations, ign \in BOOLEAN :
           AddCustomIgnore(id, d, ign)
    \/ \E id \in Ids : RemoveCustomIgnore(id)
    \/ \E id \in Ids : Admit(id)
    \/ Tick

SpecReg == Init /\ [][RegNext]_vars

\* The overrides of one identity against the clock: the override is installed,
\* replaced, removed and asked for at every instant, with the checker and the
\* admission of events in between.
OverrideNext ==
    \/ Start
    \/ Stop
    \/ \E r \in Reapers : CheckerLoop(r)
    \/ \E r \in Reapers : CheckerPass(r)
    \/ \E id \in ConcIds, d \in CustomDurations, ign \in BOOLEAN :
           AddCustomIgnore(id, d, ign)
    \/ \E id \in ConcIds : RemoveCustomIgnore(id)
    \/ \E id \in ConcIds : IsCustomLimitedCall(id)
    \/ \E id \in ConcIds : Admit(id)
    \/ Tick

SpecOverride == Init /\ [][OverrideNext]_vars

\* The overrides of every identity at one instant: statuses come to exist by
\* admitted events and by AddCustomIgnore, and overrides are installed,
\* replaced and removed on them.
CustomNext ==
    \/ Start
    \/ Stop
    \/ \E id \in Ids, d \in CustomDurations, ign \in BOOLEAN :
           AddCustomIgnore(id, d, ign)
    \/ \E id \in Ids : RemoveCustomIgnore(id)
    \/ \E id \in Ids : Admit(id)

SpecCustom == Init /\ [][CustomNext]_vars

\* The checker against the clock over the statuses of every identity: events
\* of every identity are admitted, overrides are installed on one of them, the
\* clock runs, and the limiter is started and stopped.
SweepNext ==
    \/ Start
    \/ Stop
    \/ \E r \in Reapers : CheckerLoop(r)
    \/ \E r \in Reapers : CheckerPass(r)
    \/ \E id \in ConcIds, d \in CustomDurations :
           AddCustomIgnore(id, d, FALSE)
    \/ \E id \in Ids : Admit(id)
    \/ Tick

\* A checker goroutine that can take its next step takes it: the sleep of an
\* iteration ends and the iteration runs.
SweepFairness ==
    \A r \in Reapers :
        WF_vars(CheckerLoop(r)) /\ WF_vars(CheckerPass(r))

SpecSweep == Init /\ [][SweepNext]_vars /\ SweepFairness

\* --------------------------------------------------- configuration setters
\* The predicates and callbacks are opaque to the limiter: one stands for all.
Funcs == {"f"}
\* The arguments of a variadic call or a slice argument, n elements at most.
SeqsUpTo(S, n) == UNION {[1..k -> S] : k \in 0..n}

\* Lines 87-89.
SetTriggerFuncs(t) ==
    /\ panicked = ""
    /\ triggers' = t
    /\ UNCHANGED <<timeout, punishment, maxCount, maxTimeout, TextOnly,
                   exceptionIDs, conditions, exceptions,
                   lifeVars, ignoredExceptions, locks, nextMutex, now, ctl, reapers, api,
                   lastCall, panicked>>

\* Lines 97-99: SetTriggerFuncs(t).
SetTriggerFunc(t) ==
    /\ panicked = ""
    /\ triggers' = <<t>>
    /\ UNCHANGED <<timeout, punishment, maxCount, maxTimeout, TextOnly,
                   exceptionIDs, conditions, exceptions,
                   lifeVars, ignoredExceptions, locks, nextMutex, now, ctl, reapers, api,
                   lastCall, panicked>>

\* Lines 103-105.
AppendTriggerFuncs(t) ==
    /\ panicked = ""
    /\ Len(triggers) + Len(t) <= MaxFuncs
    /\ triggers' = triggers \o t
    /\ UNCHANGED <<timeout, punishment, maxCount, maxTimeout, TextOnly,
                   exceptionIDs, conditions, exceptions,
                   lifeVars, ignoredExceptions, locks, nextMutex, now, ctl, reapers, api,
                   lastCall, panicked>>

\* Lines 109-111.
AppendTriggerFunc(t) ==
    /\ panicked = ""
    /\ Len(triggers) < MaxFuncs
    /\ triggers' = Append(triggers, t)
    /\ UNCHANGED <<timeout, punishment, maxCount, maxTimeout, TextOnly,
                   exceptionIDs, conditions, exceptions,
                   lifeVars, ignoredExceptions, locks, nextMutex, now, ctl, reapers, api,
                   lastCall, panicked>>

\* Lines 114-116.
AddException(ex) ==
    /\ panicked = ""
    /\ Len(exceptions) < MaxFuncs
    /\ exceptions' = Append(exceptions, ex)
    /\ UNCHANGED <<timeout, punishment, maxCount, maxTimeout, TextOnly,
                   exceptionIDs, conditions, triggers,
                   lifeVars, ignoredExceptions, locks, nextMutex, now, ctl, reapers, api,
                   lastCall, panicked>>

\* Lines 121-123.
ClearAllExceptions ==
    /\ panicked = ""
    /\ exceptions' = <<>>
    /\ UNCHANGED <<timeout, punishment, maxCount, maxTimeout, TextOnly,
                   exceptionIDs, conditions, triggers,
                   lifeVars, ignoredExceptions, locks, nextMutex, now, ctl, reapers, api,
                   lastCall, panicked>>

\* Lines 140-142.
SetTextOnly(t) ==
    /\ panicked = ""
    /\ TextOnly' = t
    /\ UNCHANGED <<timeout, punishment, maxCount, maxTimeout, exceptionIDs,
                   conditions, exceptions, triggers,
                   lifeVars, ignoredExceptions, locks, nextMutex, now, ctl, reapers, api,
                   lastCall, panicked>>

\* Lines 164-166: the ids are appended as they are given.
AddExceptionID(id) ==
    /\ panicked = ""
    /\ Len(exceptionIDs) + Len(id) <= MaxList
    /\ exceptionIDs' = exceptionIDs \o id
    /\ UNCHANGED <<timeout, punishment, maxCount, maxTimeout, TextOnly,
                   conditions, exceptions, triggers,
                   lifeVars, ignoredExceptions, locks, nextMutex, now, ctl, reapers, api,
                   lastCall, panicked>>

\* Lines 171-173.
AddCondition(condition) ==
    /\ panicked = ""
    /\ Len(conditions) < MaxFuncs
    /\ conditions' = Append(conditions, condition)
    /\ UNCHANGED <<timeout, punishment, maxCount, maxTimeout, TextOnly,
                   exceptionIDs, exceptions, triggers,
                   lifeVars, ignoredExceptions, locks, nextMutex, now, ctl, reapers, api,
                   lastCall, panicked>>

\* Lines 176-178.
ClearAllConditions ==
    /\ panicked = ""
    /\ conditions' = <<>>
    /\ UNCHANGED <<timeout, punishment, maxCount, maxTimeout, TextOnly,
                   exceptionIDs, exceptions, triggers,
                   lifeVars, ignoredExceptions, locks, nextMutex, now, ctl, reapers, api,
                   lastCall, panicked>>

\* Lines 183-185.
AddConditions(cs) ==
    /\ panicked = ""
    /\ Len(conditions) + Len(cs) <= MaxFuncs
    /\ conditions' = conditions \o cs
    /\ UNCHANGED <<timeout, punishment, maxCount, maxTimeout, TextOnly,
                   exceptionIDs, exceptions, triggers,
                   lifeVars, ignoredExceptions, locks, nextMutex, now, ctl, reapers, api,
                   lastCall, panicked>>

\* Lines 189-191.
SetAsConditions(cs) ==
    /\ panicked = ""
    /\ conditions' = cs
    /\ UNCHANGED <<timeout, punishment, maxCount, maxTimeout, TextOnly,
                   exceptionIDs, exceptions, triggers,
                   lifeVars, ignoredExceptions, locks, nextMutex, now, ctl, reapers, api,
                   lastCall, panicked>>

\* Lines 196-198.
ClearAllExceptionIDs ==
    /\ panicked = ""
    /\ exceptionIDs' = <<>>
    /\ UNCHANGED <<timeout, punishment, maxCount, maxTimeout, TextOnly,
                   conditions, exceptions, triggers,
                   lifeVars, ignoredExceptions, locks, nextMutex, now, ctl, reapers, api,
                   lastCall, panicked>>

\* Lines 221-223.
SetAsExceptionList(list) ==
    /\ panicked = ""
    /\ exceptionIDs' = list
    /\ UNCHANGED <<timeout, punishment, maxCount, maxTimeout, TextOnly,
                   conditions, exceptions, triggers,
                   lifeVars, ignoredExceptions, locks, nextMutex, now, ctl, reapers, api,
                   lastCall, panicked>>

\* Lines 245-247.
SetFloodWaitTime(d) ==
    /\ panicked = ""
    /\ timeout' = d
    /\ UNCHANGED <<punishment, maxCount, maxTimeout, TextOnly, exceptionIDs,
                   conditions, exceptions, triggers,
                   lifeVars, ignoredExceptions, locks, nextMutex, now, ctl, reapers, api,
                   lastCall, panicked>>

\* Lines 258-260.
SetPunishmentDuration(d) ==
    /\ panicked = ""
    /\ punishment' = d
    /\ UNCHANGED <<timeout, maxCount, maxTimeout, TextOnly, exceptionIDs,
                   conditions, exceptions, triggers,
                   lifeVars, ignoredExceptions, locks, nextMutex, now, ctl, reapers, api,
                   lastCall, panicked>>

\* Lines 267-269.
SetMaxMessageCount(count) ==
    /\ panicked = ""
    /\ maxCount' = count
    /\ UNCHANGED <<timeout, punishment, maxTimeout, TextOnly, exceptionIDs,
                   conditions, exceptions, triggers,
                   lifeVars, ignoredExceptions, locks, nextMutex, now, ctl, reapers, api,
                   lastCall, panicked>>

\* The clamp with the fallback of the method's comment, "timeout + punishment
\* + 1", in place of the fallback of its body.
MaxCacheDurationPlusOne(d) ==
    IF d > Wrap(punishment + timeout) THEN d
    ELSE Wrap(Wrap(punishment + timeout) + 1)

\* The interval SetMaxCacheDuration(d) sets (lines 277-281).
MaxCacheDuration(d) ==
    IF d > Wrap(punishment + timeout) THEN d
    ELSE Wrap(Wrap(punishment + timeout) + Minute)

\* Lines 276-282.
SetMaxCacheDuration(d) ==
    /\ panicked = ""
    /\ maxTimeout' = MaxCacheDuration(d)
    /\ UNCHANGED <<timeout, punishment, maxCount, TextOnly, exceptionIDs,
                   conditions, exceptions, triggers,
                   lifeVars, ignoredExceptions, locks, nextMutex, now, ctl, reapers, api,
                   lastCall, panicked>>

\* Lines 288-290.
SetDefaultInterval ==
    /\ panicked = ""
    /\ maxTimeout' = DefaultInterval
    /\ UNCHANGED <<timeout, punishment, maxCount, TextOnly, exceptionIDs,
                   conditions, exceptions, triggers,
                   lifeVars, ignoredExceptions, locks, nextMutex, now, ctl, reapers, api,
                   lastCall, panicked>>

\* Durations the callers of the duration setters pass: negative, zero, small,
\* and large enough for sums of them to leave the width of a duration.
DurSamples == {-1, 0, 1, 5, 10, 30, 100}
\* Message counts the callers pass.
CountSamples == {1, 2}

\* The interval of the checker: the duration setters, Start and Stop, and the
\* checker over a Registry that stays empty.
IntervalNext ==
    \/ \E d \in DurSamples : SetFloodWaitTime(d)
    \/ \E d \in DurSamples : SetPunishmentDuration(d)
    \/ \E d \in DurSamples : SetMaxCacheDuration(d)
    \/ SetDefaultInterval
    \/ Start
    \/ Stop
    \/ \E r \in Reapers : CheckerLoop(r)
    \/ \E r \in Reapers : CheckerPass(r)

SpecInterval == Init /\ [][IntervalNext]_vars

\* The configuration surface and the lifecycle: every setter, Start, and Stop
\* statement by statement.
ConfigNext ==
    \/ \E t \in SeqsUpTo(Funcs, MaxFuncs) : SetTriggerFuncs(t)
    \/ \E t \in Funcs : SetTriggerFunc(t)
    \/ \E t \in SeqsUpTo(Funcs, MaxFuncs) : AppendTriggerFuncs(t)
    \/ \E t \in Funcs : AppendTriggerFunc(t)
    \/ \E ex \in Funcs : AddException(ex)
    \/ ClearAllExceptions
    \/ \E t \in BOOLEAN : SetTextOnly(t)
    \/ \E id \in SeqsUpTo(Ids, MaxList) : AddExceptionID(id)
    \/ \E c \in Funcs : AddCondition(c)
    \/ ClearAllConditions
    \/ \E cs \in SeqsUpTo(Funcs, MaxFuncs) : AddConditions(cs)
    \/ \E cs \in SeqsUpTo(Funcs, MaxFuncs) : SetAsConditions(cs)
    \/ ClearAllExceptionIDs
    \/ \E list \in SeqsUpTo(Ids, MaxList) : SetAsExceptionList(list)
    \/ \E d \in {5} : SetFloodWaitTime(d)
    \/ \E d \in {5} : SetPunishmentDuration(d)
    \/ \E count \in CountSamples : SetMaxMessageCount(count)
    \/ \E d \in {5} : SetMaxCacheDuration(d)
    \/ SetDefaultInterval
    \/ Start
    \/ StopCall \/ StopLock \/ StopClear \/ StopUnlock \/ StopRelease

SpecConfig == Init /\ [][ConfigNext]_vars

\* ================================================================== claims
\* Everything of the program's state but the record of the last call.
progVars == <<isEnabled, isStopped, mutex, userMap, ignoredExceptions,
              configVars, locks, nextMutex, now, ctl, reapers, api, panicked>>

\* C1: a sweep of the checker deletes no entry that is limited or that holds
\* an active custom override, whatever its last-seen time is.
C1_SweepKeepsLimitedAndOverridden ==
    [][\A r \in Reapers : CheckerPass(r) =>
          \A i \in Ids :
              (/\ userMap.entries[i].present
               /\ userMap.entries[i].limited \/ IsCustomLimited(userMap.entries[i]))
              => userMap'.entries[i].present]_vars

\* C2: Stop is safe to call concurrently with the checker: the checker never
\* dereferences a nil mutex, never unlocks a mutex that is not locked, and
\* never holds a mutex other than the limiter's current one.
C2_StopSafeWithReaper ==
    /\ panicked \notin {"checker: nil mutex", "checker: unlock of unlocked mutex"}
    /\ \A r \in Reapers :
           reapers[r].pc \in {"sweep", "unlock"} => reapers[r].p = mutex

\* C3: a registry operation that observes a torn-down Registry returns
\* quietly: it never locks a nil mutex and never writes to a nil map.
C3_RegistryOpsQuietWhenTornDown ==
    panicked \notin {"registry operation: nil mutex",
                     "AddCustomIgnore: assignment to entry in nil map",
                     "registry operation: unlock of unlocked mutex"}

\* C4: at most one checker loop is past its exit test at any moment, so two
\* checkers never sweep the same Registry.
C4_SingleReaper ==
    Cardinality({r \in Reapers : reapers[r].pc \in Sweeping}) <= 1

\* C5: no checker of an earlier lifetime sweeps the Registry once a later
\* Start has begun a new lifetime.
C5_NoReaperSurvivesStop ==
    \A r \in Reapers : (reapers[r].pc = "sweep" /\ userMap.alloc) => r = nextMutex

\* C6: Start while the limiter is enabled changes nothing: flags, mutex,
\* Registry, locks and the set of checkers stay as they are.
C6_StartWhileEnabledIsNoop ==
    [][(Start /\ isEnabled) => UNCHANGED progVars]_vars

C6_Witness == lastCall = "StartNoop" /\ isEnabled /\ Len_userMap(userMap) > 0

\* C7: Stop while the limiter is stopped changes nothing and does not go on
\* to lock the mutex.
C7_StopWhileStoppedIsNoop ==
    [][(StopCall /\ isStopped) => UNCHANGED progVars]_vars

C7_Witness == lastCall = "StopNoop" /\ isStopped /\ ctl = "idle"

\* C8: when Stop has returned the flags are enabled=false, stopped=true and
\* the mutex and the Registry are nil; a Start that follows a Stop sets
\* enabled=true, stopped=false, allocates a mutex never used before (free),
\* allocates an empty Registry and spawns a checker.
C8_StopReleasesStartReallocates ==
    /\ []((lastCall = "Stop" /\ ctl = "idle") =>
             (~isEnabled /\ isStopped /\ mutex = 0 /\ userMap = NilMap))
    /\ [][(Start /\ isStopped) =>
             /\ isEnabled' /\ ~isStopped'
             /\ mutex' \in MutexIds /\ mutex' > nextMutex
             /\ locks'[mutex'] = FreeLock
             /\ userMap' = MakeMap
             /\ reapers[mutex'].pc = "dead" /\ reapers'[mutex'].pc = "loop"]_vars

C8_Witness == lastCall = "Start" /\ nextMutex = 2 /\ isEnabled /\ mutex = 2

\* C9: no statement of Stop changes a configuration field: window,
\* punishment, maxCount, checker interval, text-only flag, exception-ID list,
\* condition and exception predicate lists and trigger list.
C9_StopKeepsConfiguration ==
    [][StopSteps => UNCHANGED configVars]_vars

C9_Witness ==
    /\ lastCall = "Stop" /\ ctl = "idle" /\ nextMutex >= 1 /\ mutex = 0
    /\ timeout = 5 /\ punishment = 5 /\ maxCount = 2 /\ maxTimeout = 70
    /\ TextOnly /\ Len(exceptionIDs) = 2
    /\ Len(conditions) = 1 /\ Len(exceptions) = 1 /\ Len(triggers) = 1

\* C10: for every d, punishment and window, SetMaxCacheDuration(d) sets the
\* interval to d when d > punishment+window and to punishment+window+1 minute
\* otherwise, and the interval it sets is greater than punishment+window.
C10_MaxCacheDurationExceedsSum ==
    [][\A d \in DurSamples : SetMaxCacheDuration(d) =>
          /\ maxTimeout' = IF d > punishment + timeout THEN d
                           ELSE punishment + timeout + Minute
          /\ maxTimeout' > punishment + timeout]_vars

C12_IntervalAlwaysExceedsSum ==
    [][(maxTimeout # 0 /\ maxTimeout > timeout + punishment)
          => maxTimeout' > timeout' + punishment']_vars

\* A non-zero-duration override is set on the status of identity i.
TimedOverride(i) ==
    /\ userMap.entries[i].present
    /\ userMap.entries[i].custom.set
    /\ userMap.entries[i].custom.duration # 0

\* C13: an override of non-zero duration D installed at the instant start is
\* active exactly while now < start + D: asked at start + D or later,
\* IsCustomLimited reports it not active and clears it.
C13_ActiveUntilBeforeEnd ==
    /\ [](\A i \in Ids : TimedOverride(i) =>
             LET c == userMap.entries[i].custom IN
             IsCustomLimited(userMap.entries[i])
                 = (c.startTime <= now /\ now < c.startTime + c.duration))
    /\ [][\A i \in Ids : (TimedOverride(i) /\ IsCustomLimitedCall(i)) =>
             LET c == userMap.entries[i].custom IN
             userMap'.entries[i].custom.set = (now < c.startTime + c.duration)]_vars

\* C13, amended: the override is active while start <= now <= start + D, the
\* instant start + D included; asked at any instant after start + D,
\* IsCustomLimited reports it not active and clears it, and asked earlier it
\* leaves it as it is.
C13_ActiveThroughEnd ==
    /\ [](\A i \in Ids : TimedOverride(i) =>
             LET c == userMap.entries[i].custom IN
             IsCustomLimited(userMap.entries[i])
                 = (c.startTime <= now /\ now <= c.startTime + c.duration))
    /\ [][\A i \in Ids : (TimedOverride(i) /\ IsCustomLimitedCall(i)) =>
             LET c == userMap.entries[i].custom IN
             IF now <= c.startTime + c.duration
             THEN userMap'.entries[i] = userMap.entries[i]
             ELSE userMap'.entries[i] =
                      [userMap.entries[i] EXCEPT !.custom = NoCustom]]_vars

\* The override of an identity at the instant start + D, still active.
C13_Witness ==
    \E i \in Ids :
        /\ TimedOverride(i)
        /\ now = userMap.entries[i].custom.startTime
                    + userMap.entries[i].custom.duration
        /\ IsCustomLimited(userMap.entries[i])

\* An override of zero duration is set on the status of identity i.
IndefiniteOverride(i) ==
    /\ userMap.entries[i].present
    /\ userMap.entries[i].custom.set
    /\ userMap.entries[i].custom.duration = 0

\* C14: an override of zero duration never expires: at every instant
\* IsCustomLimited reports it active and leaves the status as it is, and the
\* override of a status that stays in the Registry changes only by
\* RemoveCustomIgnore or an AddCustomIgnore that replaces it.
C14_ZeroDurationNeverExpires ==
    /\ [](\A i \in Ids : IndefiniteOverride(i) =>
             IsCustomLimited(userMap.entries[i]))
    /\ [][\A i \in Ids : (IndefiniteOverride(i) /\ IsCustomLimitedCall(i)) =>
             userMap' = userMap]_vars
    /\ [][\A i \in Ids :
             (/\ IndefiniteOverride(i)
              /\ userMap'.entries[i].present
              /\ userMap'.entries[i].custom # userMap.entries[i].custom)
             => \/ RemoveCustomIgnore(i)
                \/ \E d \in CustomDurations, ign \in BOOLEAN :
                       AddCustomIgnore(i, d, ign)]_vars

\* A zero-duration override two instants after it was installed.
C14_Witness ==
    \E i \in Ids :
        /\ IndefiniteOverride(i)
        /\ now >= userMap.entries[i].custom.startTime + 2
        /\ lastCall # "none"

\* No id occurs twice in the list.
NoDuplicates(list) ==
    \A j, k \in 1..Len(list) : list[j] = list[k] => j = k

\* C15: AddExceptionID never leaves the same id twice in the exception list:
\* called on a list without duplicates, with ids already in it or with the same
\* id twice, it leaves a list without duplicates.
C15_ExceptionIDsUnique ==
    [][\A id \in SeqsUpTo(Ids, MaxList) :
          (NoDuplicates(exceptionIDs) /\ AddExceptionID(id))
              => NoDuplicates(exceptionIDs')]_vars

\* The ids of the list other than id, in their order.
Without(list, id) == SelectSeq(list, LAMBDA x : x # id)

\* C16: on a running limiter AddCustomIgnore(id, d, ign) leaves identity id
\* with a status whose override is (now, d, ign), created with zero fields when
\* the identity had none and with count, Last and limited kept when it had one,
\* leaves every other identity as it was, and adds id to the ignored exceptions
\* when ign is true and leaves that list alone when it is false.
\* RemoveCustomIgnore(id) changes nothing when id has no status or no override;
\* otherwise it clears the override alone and, when the override had
\* ignoreException, removes id from the ignored exceptions.
C16_AddAndRemoveCustomIgnore ==
    /\ [][\A id \in Ids, d \in CustomDurations, ign \in BOOLEAN :
             (mutex # 0 /\ userMap.alloc /\ AddCustomIgnore(id, d, ign)) =>
                 LET s == userMap.entries[id]
                     t == userMap'.entries[id]
                 IN  /\ userMap'.alloc
                     /\ t.present
                     /\ t.custom = [set |-> TRUE, startTime |-> now,
                                    duration |-> d, ignoreException |-> ign]
                     /\ IF s.present
                        THEN t.count = s.count /\ t.Last = s.Last
                                 /\ t.limited = s.limited
                        ELSE t.count = 0 /\ t.Last = 0 /\ ~t.limited
                     /\ \A j \in Ids \ {id} :
                            userMap'.entries[j] = userMap.entries[j]
                     /\ IF ign
                        THEN /\ InList(ignoredExceptions', id)
                             /\ Without(ignoredExceptions', id)
                                    = Without(ignoredExceptions, id)
                        ELSE ignoredExceptions' = ignoredExceptions]_vars
    /\ [][\A id \in Ids :
             (mutex # 0 /\ userMap.alloc /\ RemoveCustomIgnore(id)) =>
                 LET s == userMap.entries[id] IN
                 IF ~s.present \/ ~s.custom.set
                 THEN UNCHANGED progVars
                 ELSE /\ userMap' = [userMap EXCEPT !.entries[id].custom = NoCustom]
                      /\ IF s.custom.ignoreException
                         THEN /\ ~InList(ignoredExceptions', id)
                              /\ ignoredExceptions'
                                     = Without(ignoredExceptions, id)
                         ELSE ignoredExceptions' = ignoredExceptions]_vars

\* An identity with counters from admitted events carries an override with
\* ignoreException and is in the ignored exceptions, next to another identity
\* that has a status of its own.
C16_Witness ==
    \E i, j \in Ids :
        /\ i # j
        /\ userMap.entries[i].present
        /\ userMap.entries[i].Last # 0
        /\ userMap.entries[i].limited
        /\ userMap.entries[i].custom.set
        /\ userMap.entries[i].custom.ignoreException
        /\ InList(ignoredExceptions, i)
        /\ userMap.entries[j].present
        /\ ~userMap.entries[j].custom.set
        /\ userMap.entries[j].Last = 0

\* The limiter is running.
Running == isEnabled /\ ~isStopped /\ panicked = ""

\* The status of identity i is in the Registry and can be deleted.
Stale(i) ==
    userMap.entries[i].present /\ canBeDeleted(userMap.entries[i])

\* C17: an iteration of the checker removes every entry that can be deleted
\* at that instant (Last zero, or older than the window, not limited and with
\* no active override), and an entry that can be deleted is eventually out of
\* the Registry unless it stops being deletable or the limiter stops running.
C17_SweepRemovesEveryStaleEntry ==
    /\ [][\A r \in Reapers : CheckerPass(r) =>
             \A i \in Ids : Stale(i) => ~userMap'.entries[i].present]_vars
    /\ \A i \in Ids :
           (Running /\ Stale(i)) ~> (~Stale(i) \/ ~Running)

\* With the checker asleep, an aged entry that is neither limited nor
\* overridden is in the Registry next to an entry that cannot be deleted.
C17_Witness ==
    \E i, j \in Ids :
        /\ Running
        /\ userMap.entries[i].present
        /\ userMap.entries[i].Last # 0
        /\ Stale(i)
        /\ userMap.entries[j].present
        /\ ~canBeDeleted(userMap.entries[j])
        /\ \E r \in Reapers : reapers[r].pc = "sleep"

\* C18: the checker never sleeps for less than one second: for every
\* non-negative window and punishment, the interval an iteration sleeps for is
\* at least one second, and an interval below one second has been replaced by
\* window + punishment + 1 minute before the sleep.
C18_SleepAtLeastOneSecond ==
    [][\A r \in Reapers :
          (/\ CheckerLoop(r)
           /\ reapers'[r].pc = "sleep"
           /\ timeout >= 0 /\ punishment >= 0)
          => /\ maxTimeout' >= Second
             /\ maxTimeout < Second
                   => maxTimeout' = timeout + punishment + Minute]_vars

\* The goroutines that are inside a section that modifies the Registry: a
\* checker between its Lock and its Unlock, AddCustomIgnore or
\* RemoveCustomIgnore between its Lock and its body's end, Stop between its
\* Lock and the release of the map.
RegistryWriters ==
    {<<"checker", r>> : r \in {q \in Reapers : reapers[q].pc = "sweep"}}
        \cup (IF api.pc = "body" THEN {<<"api", 0>>} ELSE {})
        \cup (IF ctl = "stop_clear" THEN {<<"Stop", 0>>} ELSE {})

\* C19: the sections of AddCustomIgnore, RemoveCustomIgnore, the checker's
\* sweep and Stop that modify the Registry exclude each other, and GetStatus
\* reads the Registry only while none of them is inside its section.
C19_RegistrySectionsExclusive ==
    /\ Cardinality(RegistryWriters) <= 1
    /\ api.pc = "read" => RegistryWriters = {}

\* C20: an id is in the ignored exceptions only if the Registry holds a status
\* for it whose override is set with ignoreException.
C20_IgnoredExceptionsHaveOverride ==
    \A i \in Ids :
        InList(ignoredExceptions, i) =>
            /\ userMap.entries[i].present
            /\ userMap.entries[i].custom.set
            /\ userMap.entries[i].custom.ignoreException

====
